---- MODULE Spec2Model ----
(***************************************************************************)
(* Marine Mentors backend: the Express route handlers of src/server.js     *)
(* (the minimal variant) and of the second file of src/unnamed/part_000    *)
(* (lines 179-525, the richer variant), run against a shared PostgreSQL    *)
(* store with the tables users and courses.  The first file of part_000    *)
(* (lines 1-176) has the control flow of src/server.js with other message  *)
(* texts and is covered by the minimal variant.                            *)
(*                                                                         *)
(* Every request is a process of its own.  A handler runs from one await   *)
(* to the next without interruption, so each action below is the code      *)
(* between two awaits; the store executes one statement atomically.        *)
(* A store statement may also be rejected (connection lost, constraint     *)
(* violated): the handler's catch block then answers.                      *)
(***************************************************************************)
EXTENDS Integers, Sequences, FiniteSets, TLC

VARIABLES variant, users, courses, nextId, now, reqs

vars == <<variant, users, courses, nextId, now, reqs>>

(* ------------------------------ bounds -------------------------------- *)

\* number of requests the server handles in one behaviour
MaxReqs == 3
\* the clock runs from 0 to MaxClock hours, in steps of ClockStep hours
MaxClock == 25
ClockStep == 25
\* courses tables hold at most MaxCourses rows with ids in 1..MaxCourseId
MaxCourses == 3
MaxCourseId == 3

(* ------------------------- program constants -------------------------- *)

JWT_SECRET == "marine_mentors_secret_2025"
\* bcrypt.hash(password, 10)
BcryptRounds == 10
\* jwt.sign(..., { expiresIn: '24h' }), in hours
TokenTTL == 24

(* ------------------------------ values -------------------------------- *)

\* a field absent from the JSON body (JavaScript undefined; SQL NULL as a
\* query parameter)
Undefined == "undefined"

\* a JSON number sent where a string is expected (truthy, not a string)
Number == "123 (number)"

\* typeof v === 'string'
IsString(v) == v \notin {Undefined, Number}

Emails == {"a@x.com", "b@x.com"}
Passwords == {"pw", "wrong"}

Reqs == 1..MaxReqs

FullBody(e, p) ==
  [fullName |-> "A", email |-> e, phone |-> "1", classLevel |-> "1", password |-> p]

BodyFields == {"fullName", "email", "phone", "classLevel", "password"}

\* request bodies of POST /api/auth/register: every field present, or one of
\* email, password, phone missing (fullName and classLevel are handled as
\* phone is), or a password that is a number
RegisterBodies ==
  {FullBody(e, p) : e \in Emails, p \in Passwords}
    \cup {FullBody(e, Undefined) : e \in Emails}
    \cup {[FullBody("b@x.com", "pw") EXCEPT ![f] = Undefined] : f \in {"email", "phone"}}
    \cup {FullBody("b@x.com", Number)}

\* request bodies of POST /api/auth/login (only email and password are
\* read): both present, or one of them missing, or a password that is a number
LoginBodies ==
  {FullBody(e, p) : e \in Emails, p \in Passwords \cup {Number}}
    \cup {[FullBody("a@x.com", "pw") EXCEPT ![f] = Undefined] :
            f \in {"email", "password"}}

NoBody == FullBody(Undefined, Undefined)

(* ------------------------------ bcrypt -------------------------------- *)

\* bcrypt.hash(s, rounds) and bcrypt.compare(s, hash) reject
\* ("Illegal arguments") when s is not a string
BcryptRejects(s) == ~IsString(s)

BcryptHashError == "Illegal arguments: number, number"
BcryptCompareError == "Illegal arguments: number, string"

\* bcrypt.hash(s, rounds) with a fresh salt: a one-way digest over the salt
\* and the password
bcryptHash(s, rounds, salt) ==
  [alg |-> "bcrypt", rounds |-> rounds, salt |-> salt, digest |-> <<salt, s>>]

\* bcrypt.compare(s, hash): recomputes the digest with the salt of the hash
bcryptCompare(s, hash) == hash.digest = <<hash.salt, s>>

NoHash == bcryptHash(Undefined, 0, 0)

(* -------------------------------- jwt --------------------------------- *)

\* HMAC signature of a payload under a key
Signature(payload, key) == [key |-> key, over |-> payload]

\* jwt.sign(payload, secret): the payload with its signature under secret
JwtSign(payload, secret) ==
  [payload |-> payload, sig |-> Signature(payload, secret)]

\* mutant of JwtVerify: verification with ignoreExpiration
JwtVerifyIgnoringExpiration(token, secret, clock) ==
  token.sig = Signature(token.payload, secret)

\* jwt.verify(token, secret): throws unless the signature is the secret's
\* over the payload and, when the payload carries exp, the clock is before it
JwtVerify(token, secret, clock) ==
  /\ token.sig = Signature(token.payload, secret)
  /\ "exp" \in DOMAIN token.payload => clock < token.payload.exp

NoToken == [payload |-> [none |-> TRUE], sig |-> Signature([none |-> TRUE], "none")]

(* ------------------------------- store -------------------------------- *)

\* error.message of a rejected statement
StoreError == "store error"
\* new Error('Failed to create user - no rows returned')
NoRowsError == "Failed to create user - no rows returned"

UserRow(id, body, hash, date, active, trial) ==
  [id |-> id, full_name |-> body.fullName, email |-> body.email,
   phone |-> body.phone, class_level |-> body.classLevel,
   password_hash |-> hash, registration_date |-> date,
   is_active |-> active, trial_used |-> trial]

\* the users table's columns are NOT NULL: an INSERT with a missing value is
\* rejected.  No constraint of the table rejects a second row with an email
\* already stored.
InsertAccepted(row) ==
  \A c \in {"full_name", "email", "phone", "class_level"} : row[c] # Undefined

\* the values an INSERT that names no registration_date, is_active and
\* trial_used gets from the table's column defaults
DefaultRow(id, body, hash, clock) == UserRow(id, body, hash, clock, TRUE, FALSE)

\* mutant of InsertUser: INSERT ... ON CONFLICT (email) DO NOTHING
InsertUserUnlessPresent(table, row) ==
  IF \E i \in 1..Len(table) : table[i].email = row.email THEN table
  ELSE Append(table, row)

\* mutant of InsertUser: INSERT ... ON CONFLICT (email) DO UPDATE
InsertUserOrOverwrite(table, row) ==
  IF \E i \in 1..Len(table) : table[i].email = row.email
    THEN [i \in 1..Len(table) |->
            IF table[i].email = row.email THEN row ELSE table[i]]
  ELSE Append(table, row)

\* INSERT INTO users ... : the row is added to the table
InsertUser(table, row) == Append(table, row)

\* the set of sequences that enumerate the finite set S, each element once
RECURSIVE Orderings(_)
Orderings(S) ==
  IF S = {} THEN {<<>>}
  ELSE UNION {{<<x>> \o t : t \in Orderings(S \ {x})} : x \in S}

\* a SELECT without ORDER BY returns the matching rows in an order the store
\* chooses: Results is the set of results it may return when the rows at the
\* positions hit of table t match
Results(t, hit) ==
  {[k \in 1..Len(o) |-> t[o[k]]] : o \in Orderings(hit)}

\* ORDER BY id: the matching rows in ascending order of id
RECURSIVE SortById(_)
SortById(S) ==
  IF S = {} THEN <<>>
  ELSE LET m == CHOOSE x \in S : \A y \in S : x.id <= y.id
       IN <<m>> \o SortById(S \ {m})

(* ----------------------------- responses ------------------------------ *)

NoResponse == [status |-> 0, body |-> [none |-> TRUE]]

Response(status, body) == [status |-> status, body |-> body]

\* 'prefix' + error.message
StrCat(prefix, msg) ==
  CASE prefix = "Registration failed: " /\ msg = StoreError
         -> "Registration failed: store error"
    [] prefix = "Registration failed: " /\ msg = NoRowsError
         -> "Registration failed: Failed to create user - no rows returned"
    [] prefix = "Registration failed: " /\ msg = BcryptHashError
         -> "Registration failed: Illegal arguments: number, number"
    [] prefix = "Login failed: " /\ msg = StoreError
         -> "Login failed: store error"
    [] prefix = "Login failed: " /\ msg = BcryptCompareError
         -> "Login failed: Illegal arguments: number, string"
    [] prefix = "Failed to fetch courses: " /\ msg = StoreError
         -> "Failed to fetch courses: store error"
    [] prefix = "Failed to fetch users: " /\ msg = StoreError
         -> "Failed to fetch users: store error"

(* ------------------------------ requests ------------------------------ *)

\* a request: the route, the handler's position, its inputs (body, scheme and
\* token of the Authorization header), its locals (rows of the last
\* statement, passwordHash) and its response.  History of the request, kept
\* for the properties: queries (statements issued), failed (a statement was
\* rejected), inserted (rows it added), arrived (length of users when a
\* register or login request arrived), at (clock when a profile request
\* arrived)
IdleReq ==
  [route |-> "none", pc |-> "idle", body |-> NoBody, scheme |-> "none",
   token |-> NoToken, rows |-> <<>>, passwordHash |-> NoHash,
   queries |-> 0, failed |-> FALSE, inserted |-> 0, arrived |-> 0, at |-> 0,
   resp |-> NoResponse]

\* request slots are taken in order
Free(r) ==
  /\ reqs[r].pc = "idle"
  /\ \A k \in 1..(r - 1) : reqs[k].pc # "idle"

At(r, route, pc) == reqs[r].route = route /\ reqs[r].pc = pc

\* the handler answers and ends: res.status(...).json(...)
Reply(q, resp) == [q EXCEPT !.pc = "done", !.resp = resp]

\* the handler issues a store statement and waits for it at pc
Await(q, pc) == [q EXCEPT !.pc = pc]

\* the statement the handler waits for is executed and returns rows
Returned(q, rows) == [q EXCEPT !.rows = rows, !.queries = @ + 1]

\* the statement the handler waits for is rejected by the store
Rejected(q) == [q EXCEPT !.queries = @ + 1, !.failed = TRUE]

Set(r, q) == reqs' = [reqs EXCEPT ![r] = q]

(* -------------------------------- Init -------------------------------- *)

PreExistingUser ==
  UserRow(1, FullBody("a@x.com", "pw"), bcryptHash("pw", BcryptRounds, 0), 0, FALSE, TRUE)

InitialUsers == {<<PreExistingUser>>}

Course(id, active) == [id |-> id, title |-> "course", is_active |-> active]

InitialCourses == {<<Course(2, TRUE), Course(3, FALSE), Course(1, TRUE)>>}

Init ==
  /\ variant \in {"minimal", "richer"}
  /\ users \in InitialUsers
  /\ nextId = Len(users) + 1
  /\ courses \in InitialCourses
  /\ now = 0
  /\ reqs = [r \in Reqs |-> IdleReq]

(* ------------- richer variant: POST /api/auth/register ---------------- *)

AllFieldsRequired ==
  Response(400, [success |-> FALSE,
                 error |-> "All fields are required (fullName, email, phone, classLevel, password)"])

UserExists ==
  Response(400, [success |-> FALSE, error |-> "User already exists with this email"])

\* details is undefined, and left out of the JSON, unless NODE_ENV is
\* 'development'
RegisterError(msg) ==
  Response(500, [success |-> FALSE, error |-> StrCat("Registration failed: ", msg)])

\* !fullName || !email || !phone || !classLevel || !password
MissingField(body) == \E f \in BodyFields : body[f] = Undefined

\* SELECT id FROM users WHERE email = $1 (a NULL parameter matches no row)
SelectIdByEmail(table, email) ==
  LET hit == SelectSeq(table, LAMBDA u : email # Undefined /\ u.email = email)
  IN [k \in 1..Len(hit) |-> [id |-> hit[k].id]]

\* mutant of EmailTaken: existingUser.rows.length > 1
EmailTakenTwice(rows) == Len(rows) > 1

\* existingUser.rows.length > 0
EmailTaken(rows) == Len(rows) > 0

\* RETURNING id, full_name, email, class_level, registration_date
Returning(row) ==
  [id |-> row.id, full_name |-> row.full_name, email |-> row.email,
   class_level |-> row.class_level, registration_date |-> row.registration_date]

\* mutant of TokenFor: signed with a key other than the one jwt.verify is
\* given
TokenForOtherKey(row, clock) ==
  JwtSign([userId |-> row.id, email |-> row.email, iat |-> clock,
           exp |-> clock + TokenTTL], "another secret")

\* jwt.sign({ userId, email }, JWT_SECRET, { expiresIn: '24h' })
TokenFor(row, clock) ==
  JwtSign([userId |-> row.id, email |-> row.email, iat |-> clock,
           exp |-> clock + TokenTTL], JWT_SECRET)

\* the user object of the 201 response
RegisteredUser(row) ==
  [id |-> row.id, fullName |-> row.full_name, email |-> row.email,
   classLevel |-> row.class_level, registrationDate |-> row.registration_date]

Registered(row, clock) ==
  Response(201, [success |-> TRUE, message |-> "Registration successful!",
                 token |-> TokenFor(row, clock), user |-> RegisteredUser(row)])

\* the request arrives; the fields are validated; the SELECT is issued
RegisterReceive(r, body) ==
  /\ variant = "richer"
  /\ Free(r)
  /\ LET q == [reqs[r] EXCEPT !.route = "register", !.body = body, !.arrived = Len(users)]
     IN Set(r, IF MissingField(body) THEN Reply(q, AllFieldsRequired)
               ELSE Await(q, "select"))
  /\ UNCHANGED <<variant, users, courses, nextId, now>>

\* the SELECT returns; an existing row ends the request, else hashing starts
RegisterSelect(r) ==
  /\ variant = "richer"
  /\ At(r, "register", "select")
  /\ LET q == Returned(reqs[r], SelectIdByEmail(users, reqs[r].body.email))
     IN Set(r, IF EmailTaken(q.rows) THEN Reply(q, UserExists)
               ELSE Await(q, "hash"))
  /\ UNCHANGED <<variant, users, courses, nextId, now>>

\* bcrypt.hash resolves and the INSERT is issued, or bcrypt.hash rejects and
\* the catch block answers 500
RegisterHash(r) ==
  /\ variant = "richer"
  /\ At(r, "register", "hash")
  /\ Set(r, IF BcryptRejects(reqs[r].body.password)
            THEN Reply(reqs[r], RegisterError(BcryptHashError))
            ELSE Await([reqs[r] EXCEPT !.passwordHash =
                          bcryptHash(reqs[r].body.password, BcryptRounds, r)], "insert"))
  /\ UNCHANGED <<variant, users, courses, nextId, now>>

\* the INSERT is executed and returns the new row; the token is signed and
\* the 201 response sent
RegisterInsert(r) ==
  /\ variant = "richer"
  /\ At(r, "register", "insert")
  /\ LET row == UserRow(nextId, reqs[r].body, reqs[r].passwordHash, now, TRUE, FALSE)
         q == Returned([reqs[r] EXCEPT !.inserted = @ + 1], <<Returning(row)>>)
     IN /\ InsertAccepted(row)
        /\ users' = InsertUser(users, row)
        /\ nextId' = nextId + 1
        /\ Set(r, IF Len(q.rows) = 0
                    THEN Reply(q, RegisterError(NoRowsError))
                    ELSE Reply(q, Registered(q.rows[1], now)))
  /\ UNCHANGED <<variant, courses, now>>

\* the SELECT or the INSERT is rejected: the catch block answers 500
RegisterCatch(r) ==
  /\ variant = "richer"
  /\ At(r, "register", "select") \/ At(r, "register", "insert")
  /\ Set(r, Reply(Rejected(reqs[r]), RegisterError(StoreError)))
  /\ UNCHANGED <<variant, users, courses, nextId, now>>

(* --------------- richer variant: POST /api/auth/login ----------------- *)

EmailAndPasswordRequired ==
  Response(400, [success |-> FALSE, error |-> "Email and password are required"])

\* the answer when no active user has the email
UserNotFoundOrInactive ==
  Response(401, [success |-> FALSE, error |-> "Invalid email or password"])

\* the answer when the password does not match the stored hash
InvalidPassword ==
  Response(401, [success |-> FALSE, error |-> "Invalid email or password"])

LoginError(msg) ==
  Response(500, [success |-> FALSE, error |-> StrCat("Login failed: ", msg)])

\* the user object of the login response
LoggedInUser(row) ==
  [id |-> row.id, fullName |-> row.full_name, email |-> row.email,
   classLevel |-> row.class_level]

LoggedIn(row, clock) ==
  Response(200, [success |-> TRUE, message |-> "Login successful!",
                 token |-> TokenFor(row, clock), user |-> LoggedInUser(row)])

\* SELECT * FROM users WHERE email = $1 AND is_active = true
ActiveByEmail(table, email) ==
  Results(table, {i \in 1..Len(table) : table[i].email = email /\ table[i].is_active})

\* the request arrives; email and password are validated; the SELECT is issued
LoginReceive(r, body) ==
  /\ variant = "richer"
  /\ Free(r)
  /\ LET q == [reqs[r] EXCEPT !.route = "login", !.body = body, !.arrived = Len(users)]
     IN Set(r, IF body.email = Undefined \/ body.password = Undefined
               THEN Reply(q, EmailAndPasswordRequired)
               ELSE Await(q, "select"))
  /\ UNCHANGED <<variant, users, courses, nextId, now>>

\* the SELECT returns; without a row the request ends, else bcrypt.compare starts
LoginSelect(r) ==
  /\ variant = "richer"
  /\ At(r, "login", "select")
  /\ \E rows \in ActiveByEmail(users, reqs[r].body.email) :
       LET q == Returned(reqs[r], rows)
       IN Set(r, IF Len(rows) = 0 THEN Reply(q, UserNotFoundOrInactive)
                 ELSE Await(q, "compare"))
  /\ UNCHANGED <<variant, users, courses, nextId, now>>

\* bcrypt.compare resolves against the first row returned, or rejects and the
\* catch block answers 500
LoginCompare(r) ==
  /\ variant = "richer"
  /\ At(r, "login", "compare")
  /\ LET q == reqs[r]
     IN Set(r, IF BcryptRejects(q.body.password) THEN Reply(q, LoginError(BcryptCompareError))
               ELSE IF ~bcryptCompare(q.body.password, q.rows[1].password_hash)
               THEN Reply(q, InvalidPassword)
               ELSE Reply(q, LoggedIn(q.rows[1], now)))
  /\ UNCHANGED <<variant, users, courses, nextId, now>>

\* the SELECT is rejected: the catch block answers 500
LoginCatch(r) ==
  /\ variant = "richer"
  /\ At(r, "login", "select")
  /\ Set(r, Reply(Rejected(reqs[r]), LoginError(StoreError)))
  /\ UNCHANGED <<variant, users, courses, nextId, now>>

(* ------------------ richer variant: GET /api/courses ------------------ *)

\* mutant of ActiveCourses: without ORDER BY, the rows in stored order
ActiveCoursesUnordered(table) == SelectSeq(table, LAMBDA c : c.is_active)

\* SELECT * FROM courses WHERE is_active = true ORDER BY id
ActiveCourses(table) ==
  SortById({table[i] : i \in {j \in 1..Len(table) : table[j].is_active}})

CoursesError(msg) ==
  Response(500, [success |-> FALSE, error |-> StrCat("Failed to fetch courses: ", msg)])

\* the request arrives and its SELECT returns
CoursesList(r) ==
  /\ variant = "richer"
  /\ Free(r)
  /\ LET q == Returned([reqs[r] EXCEPT !.route = "courses"], ActiveCourses(courses))
     IN Set(r, Reply(q, Response(200, [success |-> TRUE, courses |-> q.rows])))
  /\ UNCHANGED <<variant, users, courses, nextId, now>>

\* the request arrives and its SELECT is rejected
CoursesCatch(r) ==
  /\ variant = "richer"
  /\ Free(r)
  /\ Set(r, Reply(Rejected([reqs[r] EXCEPT !.route = "courses"]), CoursesError(StoreError)))
  /\ UNCHANGED <<variant, users, courses, nextId, now>>

(* ---------------- richer variant: GET /api/user/profile --------------- *)

NoValidToken ==
  Response(401, [success |-> FALSE, error |-> "No valid token provided"])

InvalidOrExpired ==
  Response(401, [success |-> FALSE, error |-> "Invalid or expired token"])

UserNotFound ==
  Response(404, [success |-> FALSE, error |-> "User not found"])

\* SELECT id, full_name, email, phone, class_level, registration_date
\* FROM users WHERE id = $1 AND is_active = true
ProfileById(table, id) ==
  LET hit == SelectSeq(table, LAMBDA u : u.id = id /\ u.is_active)
  IN [k \in 1..Len(hit) |->
        [id |-> hit[k].id, full_name |-> hit[k].full_name, email |-> hit[k].email,
         phone |-> hit[k].phone, class_level |-> hit[k].class_level,
         registration_date |-> hit[k].registration_date]]

\* the tokens the server has sent in a response so far
IssuedTokens ==
  {reqs[k].resp.body.token :
     k \in {j \in Reqs : reqs[j].pc = "done" /\ "token" \in DOMAIN reqs[j].resp.body}}

\* a token whose payload was changed after signing: another user's id, or a
\* later expiry
Tampered(t) ==
  {[t EXCEPT !.payload.userId = i] : i \in (1..(nextId - 1)) \ {t.payload.userId}}
    \cup (IF "exp" \in DOMAIN t.payload
            THEN {[t EXCEPT !.payload.exp = @ + TokenTTL]} ELSE {})

\* a token signed by somebody who does not hold the secret
Forged(id, clock) ==
  JwtSign([userId |-> id, email |-> "a@x.com", iat |-> clock, exp |-> clock + TokenTTL],
          "not the secret")

\* the tokens a client may present
Presentable ==
  IssuedTokens \cup UNION {Tampered(t) : t \in IssuedTokens} \cup {Forged(1, now)}

\* the Authorization headers a client may send: none, another scheme, or
\* Bearer with a token
Headers ==
  {[scheme |-> "none", token |-> NoToken], [scheme |-> "Basic", token |-> NoToken]}
    \cup {[scheme |-> "Bearer", token |-> t] : t \in Presentable}

\* the request arrives; the header is checked and the token verified; the
\* SELECT is issued
ProfileReceive(r, h) ==
  /\ variant = "richer"
  /\ Free(r)
  /\ LET q == [reqs[r] EXCEPT !.route = "profile", !.scheme = h.scheme, !.token = h.token,
                               !.at = now]
     IN Set(r, IF h.scheme # "Bearer" THEN Reply(q, NoValidToken)
               ELSE IF ~JwtVerify(h.token, JWT_SECRET, now) THEN Reply(q, InvalidOrExpired)
               ELSE Await(q, "select"))
  /\ UNCHANGED <<variant, users, courses, nextId, now>>

\* the SELECT returns
ProfileSelect(r) ==
  /\ variant = "richer"
  /\ At(r, "profile", "select")
  /\ LET q == Returned(reqs[r], ProfileById(users, reqs[r].token.payload.userId))
     IN Set(r, IF Len(q.rows) = 0 THEN Reply(q, UserNotFound)
               ELSE Reply(q, Response(200, [success |-> TRUE, user |-> q.rows[1]])))
  /\ UNCHANGED <<variant, users, courses, nextId, now>>

\* the SELECT is rejected: the catch block, which also catches jwt.verify's
\* errors, answers 401
ProfileCatch(r) ==
  /\ variant = "richer"
  /\ At(r, "profile", "select")
  /\ Set(r, Reply(Rejected(reqs[r]), InvalidOrExpired))
  /\ UNCHANGED <<variant, users, courses, nextId, now>>

(* ----------------- richer variant: GET /api/admin/users --------------- *)

AdminColumns(u) ==
  [id |-> u.id, full_name |-> u.full_name, email |-> u.email, phone |-> u.phone,
   class_level |-> u.class_level, registration_date |-> u.registration_date,
   is_active |-> u.is_active]

\* SELECT ... FROM users ORDER BY registration_date DESC: rows of the same
\* date come in an order the store chooses
AllUsersByDateDesc(table) ==
  {[k \in 1..Len(res) |-> AdminColumns(res[k])] :
     res \in {x \in Results(table, 1..Len(table)) :
                \A i, j \in 1..Len(x) :
                  i < j => x[i].registration_date >= x[j].registration_date}}

AdminError(msg) ==
  Response(500, [success |-> FALSE, error |-> StrCat("Failed to fetch users: ", msg)])

\* the request arrives and its SELECT returns
AdminUsers(r) ==
  /\ variant = "richer"
  /\ Free(r)
  /\ \E rows \in AllUsersByDateDesc(users) :
       LET q == Returned([reqs[r] EXCEPT !.route = "admin"], rows)
       IN Set(r, Reply(q, Response(200, [success |-> TRUE, users |-> rows,
                                         total |-> Len(rows)])))
  /\ UNCHANGED <<variant, users, courses, nextId, now>>

\* the request arrives and its SELECT is rejected
AdminCatch(r) ==
  /\ variant = "richer"
  /\ Free(r)
  /\ Set(r, Reply(Rejected([reqs[r] EXCEPT !.route = "admin"]), AdminError(StoreError)))
  /\ UNCHANGED <<variant, users, courses, nextId, now>>

(* -------- richer variant: GET /health, /api/test-db, unmatched -------- *)

\* process.env.NODE_ENV || 'development', with NODE_ENV not set
Environment == "development"

Health(r) ==
  /\ variant = "richer"
  /\ Free(r)
  /\ Set(r, Reply([reqs[r] EXCEPT !.route = "health"],
                  Response(200, [status |-> "OK",
                                 message |-> "Marine Mentors Backend is running!",
                                 timestamp |-> now, environment |-> Environment])))
  /\ UNCHANGED <<variant, users, courses, nextId, now>>

\* SELECT NOW(), then the look-up of the users table in information_schema
TestDb(r) ==
  /\ variant = "richer"
  /\ Free(r)
  /\ LET q == Returned(Returned([reqs[r] EXCEPT !.route = "test-db"],
                                <<[current_time |-> now]>>),
                       <<[table_name |-> "users"]>>)
     IN Set(r, Reply(q, Response(200, [success |-> TRUE,
                                       message |-> "Database connection successful",
                                       timestamp |-> now,
                                       usersTableExists |-> Len(q.rows) > 0])))
  /\ UNCHANGED <<variant, users, courses, nextId, now>>

TestDbCatch(r) ==
  /\ variant = "richer"
  /\ Free(r)
  /\ Set(r, Reply(Rejected([reqs[r] EXCEPT !.route = "test-db"]),
                  Response(500, [success |-> FALSE,
                                 message |-> "Database connection failed",
                                 error |-> StoreError])))
  /\ UNCHANGED <<variant, users, courses, nextId, now>>

\* app.get('*'): a GET of any other path
NotFound(r) ==
  /\ variant = "richer"
  /\ Free(r)
  /\ Set(r, Reply([reqs[r] EXCEPT !.route = "unmatched"],
                  Response(404, [error |-> "Route not found",
                                 requestedPath |-> "/api/nothing",
                                 availableRoutes |->
                                   <<"GET /health", "GET /api/test-db",
                                     "POST /api/auth/register", "POST /api/auth/login",
                                     "GET /api/courses", "GET /api/user/profile",
                                     "GET /api/admin/users">>])))
  /\ UNCHANGED <<variant, users, courses, nextId, now>>

(* -------------- minimal variant: POST /api/auth/register -------------- *)

UserExistsMin == Response(400, [error |-> "User already exists"])

RegisterErrorMin == Response(500, [error |-> "Registration failed"])

\* mutant of ReturningMin: RETURNING *
ReturningAll(row) == row

\* RETURNING id, full_name, email
ReturningMin(row) == [id |-> row.id, full_name |-> row.full_name, email |-> row.email]

\* jwt.sign({ userId }, JWT_SECRET): no expiry
TokenForMin(row, clock) ==
  JwtSign([userId |-> row.id, iat |-> clock], JWT_SECRET)

\* res.json({ success: true, token, user: newUser.rows[0] })
RegisteredMin(row, clock) ==
  Response(200, [success |-> TRUE, token |-> TokenForMin(row, clock), user |-> row])

\* the request arrives; the SELECT is issued without any validation
RegisterReceiveMin(r, body) ==
  /\ variant = "minimal"
  /\ Free(r)
  /\ Set(r, Await([reqs[r] EXCEPT !.route = "register", !.body = body, !.arrived = Len(users)], "select"))
  /\ UNCHANGED <<variant, users, courses, nextId, now>>

\* the SELECT returns; an existing row ends the request, else hashing starts
RegisterSelectMin(r) ==
  /\ variant = "minimal"
  /\ At(r, "register", "select")
  /\ LET q == Returned(reqs[r], SelectIdByEmail(users, reqs[r].body.email))
     IN Set(r, IF EmailTaken(q.rows) THEN Reply(q, UserExistsMin)
               ELSE Await(q, "hash"))
  /\ UNCHANGED <<variant, users, courses, nextId, now>>

\* bcrypt.hash resolves and the INSERT is issued, or bcrypt.hash rejects and
\* the catch block answers 500
RegisterHashMin(r) ==
  /\ variant = "minimal"
  /\ At(r, "register", "hash")
  /\ Set(r, IF BcryptRejects(reqs[r].body.password) THEN Reply(reqs[r], RegisterErrorMin)
            ELSE Await([reqs[r] EXCEPT !.passwordHash =
                          bcryptHash(reqs[r].body.password, BcryptRounds, r)], "insert"))
  /\ UNCHANGED <<variant, users, courses, nextId, now>>

\* the INSERT is executed and returns the new row; the token is signed and
\* the response sent
RegisterInsertMin(r) ==
  /\ variant = "minimal"
  /\ At(r, "register", "insert")
  /\ LET row == DefaultRow(nextId, reqs[r].body, reqs[r].passwordHash, now)
         q == Returned([reqs[r] EXCEPT !.inserted = @ + 1], <<ReturningMin(row)>>)
     IN /\ InsertAccepted(row)
        /\ users' = InsertUser(users, row)
        /\ nextId' = nextId + 1
        /\ Set(r, Reply(q, RegisteredMin(q.rows[1], now)))
  /\ UNCHANGED <<variant, courses, now>>

\* the SELECT or the INSERT is rejected: the catch block answers 500
RegisterCatchMin(r) ==
  /\ variant = "minimal"
  /\ At(r, "register", "select") \/ At(r, "register", "insert")
  /\ Set(r, Reply(Rejected(reqs[r]), RegisterErrorMin))
  /\ UNCHANGED <<variant, users, courses, nextId, now>>

(* ---------------- minimal variant: POST /api/auth/login --------------- *)

\* the answer when no user has the email
NoSuchUserMin == Response(400, [error |-> "Invalid credentials"])

\* the answer when the password does not match the stored hash
InvalidPasswordMin == Response(400, [error |-> "Invalid credentials"])

LoginErrorMin == Response(500, [error |-> "Login failed"])

LoggedInMin(row, clock) ==
  Response(200, [success |-> TRUE, token |-> TokenForMin(row, clock),
                 user |-> [id |-> row.id, fullName |-> row.full_name,
                           email |-> row.email]])

\* SELECT * FROM users WHERE email = $1 (a NULL parameter matches no row)
ByEmail(table, email) ==
  Results(table, {i \in 1..Len(table) : email # Undefined /\ table[i].email = email})

\* the request arrives; the SELECT is issued
LoginReceiveMin(r, body) ==
  /\ variant = "minimal"
  /\ Free(r)
  /\ Set(r, Await([reqs[r] EXCEPT !.route = "login", !.body = body, !.arrived = Len(users)], "select"))
  /\ UNCHANGED <<variant, users, courses, nextId, now>>

\* the SELECT returns; without a row the request ends, else bcrypt.compare starts
LoginSelectMin(r) ==
  /\ variant = "minimal"
  /\ At(r, "login", "select")
  /\ \E rows \in ByEmail(users, reqs[r].body.email) :
       LET q == Returned(reqs[r], rows)
       IN Set(r, IF Len(rows) = 0 THEN Reply(q, NoSuchUserMin)
                 ELSE Await(q, "compare"))
  /\ UNCHANGED <<variant, users, courses, nextId, now>>

\* bcrypt.compare resolves against the first row returned, or rejects and the
\* catch block answers 500
LoginCompareMin(r) ==
  /\ variant = "minimal"
  /\ At(r, "login", "compare")
  /\ LET q == reqs[r]
     IN Set(r, IF BcryptRejects(q.body.password) THEN Reply(q, LoginErrorMin)
               ELSE IF ~bcryptCompare(q.body.password, q.rows[1].password_hash)
               THEN Reply(q, InvalidPasswordMin)
               ELSE Reply(q, LoggedInMin(q.rows[1], now)))
  /\ UNCHANGED <<variant, users, courses, nextId, now>>

\* the SELECT is rejected: the catch block answers 500
LoginCatchMin(r) ==
  /\ variant = "minimal"
  /\ At(r, "login", "select")
  /\ Set(r, Reply(Rejected(reqs[r]), LoginErrorMin))
  /\ UNCHANGED <<variant, users, courses, nextId, now>>

(* ------------ minimal variant: GET /api/courses, GET /health ---------- *)

\* the request arrives and its SELECT returns
CoursesListMin(r) ==
  /\ variant = "minimal"
  /\ Free(r)
  /\ LET q == Returned([reqs[r] EXCEPT !.route = "courses"], ActiveCourses(courses))
     IN Set(r, Reply(q, Response(200, [success |-> TRUE, courses |-> q.rows])))
  /\ UNCHANGED <<variant, users, courses, nextId, now>>

\* the request arrives and its SELECT is rejected
CoursesCatchMin(r) ==
  /\ variant = "minimal"
  /\ Free(r)
  /\ Set(r, Reply(Rejected([reqs[r] EXCEPT !.route = "courses"]),
                  Response(500, [error |-> "Failed to fetch courses"])))
  /\ UNCHANGED <<variant, users, courses, nextId, now>>

HealthMin(r) ==
  /\ variant = "minimal"
  /\ Free(r)
  /\ Set(r, Reply([reqs[r] EXCEPT !.route = "health"],
                  Response(200, [status |-> "OK",
                                 message |-> "Marine Mentors Backend is running!"])))
  /\ UNCHANGED <<variant, users, courses, nextId, now>>

(* ------------------------------- clock -------------------------------- *)

Tick ==
  /\ now + ClockStep <= MaxClock
  /\ now' = now + ClockStep
  /\ UNCHANGED <<variant, users, courses, nextId, reqs>>

(* ---------------------------- specification --------------------------- *)

Next ==
  \/ \E r \in Reqs :
       \/ \E body \in RegisterBodies : RegisterReceive(r, body)
       \/ RegisterSelect(r)
       \/ RegisterHash(r)
       \/ RegisterInsert(r)
       \/ RegisterCatch(r)
       \/ \E body \in LoginBodies : LoginReceive(r, body)
       \/ LoginSelect(r)
       \/ LoginCompare(r)
       \/ LoginCatch(r)
       \/ CoursesList(r)
       \/ CoursesCatch(r)
       \/ \E h \in Headers : ProfileReceive(r, h)
       \/ ProfileSelect(r)
       \/ ProfileCatch(r)
       \/ AdminUsers(r)
       \/ AdminCatch(r)
       \/ Health(r)
       \/ TestDb(r)
       \/ TestDbCatch(r)
       \/ NotFound(r)
       \/ \E body \in RegisterBodies : RegisterReceiveMin(r, body)
       \/ RegisterSelectMin(r)
       \/ RegisterHashMin(r)
       \/ RegisterInsertMin(r)
       \/ RegisterCatchMin(r)
       \/ \E body \in LoginBodies : LoginReceiveMin(r, body)
       \/ LoginSelectMin(r)
       \/ LoginCompareMin(r)
       \/ LoginCatchMin(r)
       \/ CoursesListMin(r)
       \/ CoursesCatchMin(r)
       \/ HealthMin(r)
  \/ Tick

Spec == Init /\ [][Next]_vars

(* ---------------- specification of the course listing ----------------- *)

\* the courses tables: up to MaxCourses rows in any stored order, each id
\* (the primary key) at most once, each row active or not
RECURSIVE CourseTables(_, _)
CourseTables(n, ids) ==
  IF n = 0 THEN {<<>>}
  ELSE {<<>>} \cup UNION {{<<Course(i, a)>> \o t : t \in CourseTables(n - 1, ids \ {i})} :
                           i \in ids, a \in BOOLEAN}

InitCourses ==
  /\ variant \in {"minimal", "richer"}
  /\ users = <<PreExistingUser>>
  /\ nextId = 2
  /\ courses \in CourseTables(MaxCourses, 1..MaxCourseId)
  /\ now = 0
  /\ reqs = [r \in Reqs |-> IdleReq]

NextCourses ==
  \E r \in Reqs :
    \/ CoursesList(r)
    \/ CoursesCatch(r)
    \/ CoursesListMin(r)
    \/ CoursesCatchMin(r)

SpecCourses == InitCourses /\ [][NextCourses]_vars

(* ----------------------------- properties ----------------------------- *)

Done(r) == reqs[r].pc = "done"

\* request r is a registration answered with the created user
RegisterSucceeded(r) ==
  /\ reqs[r].route = "register"
  /\ Done(r)
  /\ "user" \in DOMAIN reqs[r].resp.body

\* the email of request r was in a users row when r arrived
StoredAtArrival(r) ==
  \E i \in 1..reqs[r].arrived : users[i].email = reqs[r].body.email

SaysUserExists(resp) ==
  /\ resp.status = 400
  /\ resp.body.error \in {"User already exists", "User already exists with this email"}

\* C1 as stated: a registration whose email is in a users row when it
\* arrives is answered 400 'User already exists' (when no statement of it is
\* rejected) and inserts no row.
C1_AsStated ==
  \A r \in Reqs :
    reqs[r].route = "register" /\ StoredAtArrival(r) =>
      /\ reqs[r].inserted = 0
      /\ Done(r) /\ ~reqs[r].failed => SaysUserExists(reqs[r].resp)

\* C1 amended: a registration whose email is in a users row when it arrives
\* never gets past its existence check and inserts no row; it is answered
\* 400 'User already exists', except that the richer variant answers 400
\* 'All fields are required' when a field is missing, and that a rejected
\* existence check is answered 500.
C1_DuplicateRejected ==
  \A r \in Reqs :
    reqs[r].route = "register" /\ StoredAtArrival(r) =>
      /\ reqs[r].inserted = 0
      /\ reqs[r].pc \in {"select", "done"}
      /\ Done(r) =>
           IF variant = "richer" /\ MissingField(reqs[r].body)
             THEN reqs[r].resp = AllFieldsRequired /\ reqs[r].queries = 0
           ELSE IF reqs[r].failed THEN reqs[r].resp.status = 500
           ELSE SaysUserExists(reqs[r].resp)

\* a registration of an email that an earlier registration stored was
\* answered 'User already exists'
C1_Witness ==
  \E r \in Reqs :
    /\ reqs[r].route = "register" /\ Done(r) /\ StoredAtArrival(r)
    /\ reqs[r].body.email = "b@x.com"
    /\ SaysUserExists(reqs[r].resp)

RowsWithEmail(e) == {i \in 1..Len(users) : users[i].email = e}

\* C2: two registrations with the same email that both passed the existence
\* check both insert and both succeed: whenever two registrations of one
\* email were both answered with a user, each response carries a token and
\* the id of a row of its own, and users holds both rows under that email.
C2_BothInsert ==
  \A r1, r2 \in Reqs :
    /\ r1 # r2
    /\ RegisterSucceeded(r1) /\ RegisterSucceeded(r2)
    /\ reqs[r1].body.email = reqs[r2].body.email
    => /\ "token" \in DOMAIN reqs[r1].resp.body
       /\ "token" \in DOMAIN reqs[r2].resp.body
       /\ reqs[r1].resp.body.user.id # reqs[r2].resp.body.user.id
       /\ \A r \in {r1, r2} :
            \E i \in RowsWithEmail(reqs[r].body.email) :
              users[i].id = reqs[r].resp.body.user.id
       /\ Cardinality(RowsWithEmail(reqs[r1].body.email)) >= 2

\* two registrations of the same email were both answered with a token, and
\* users holds two rows with that email
C2_Witness ==
  \E r1, r2 \in Reqs :
    /\ r1 # r2
    /\ RegisterSucceeded(r1) /\ RegisterSucceeded(r2)
    /\ reqs[r1].body.email = reqs[r2].body.email
    /\ "token" \in DOMAIN reqs[r1].resp.body
    /\ "token" \in DOMAIN reqs[r2].resp.body
    /\ Cardinality(RowsWithEmail(reqs[r1].body.email)) = 2

\* login l was answered after its SELECT found no user
LoginNoUser(l) ==
  /\ reqs[l].route = "login" /\ Done(l) /\ ~reqs[l].failed
  /\ reqs[l].queries = 1
  /\ reqs[l].body.email # Undefined
  /\ Len(reqs[l].rows) = 0

\* login l was answered after its SELECT found a user, and the password it
\* carried is not that user's
LoginWrongPassword(l) ==
  /\ reqs[l].route = "login" /\ Done(l) /\ ~reqs[l].failed
  /\ Len(reqs[l].rows) > 0
  /\ reqs[l].body.password # Undefined
  /\ ~(IsString(reqs[l].body.password)
       /\ bcryptCompare(reqs[l].body.password, reqs[l].rows[1].password_hash))

\* C3: a login with a registered email and a wrong password and a login with
\* an email that matches no user get the same response (status and body).
C3_SameResponse ==
  \A l1, l2 \in Reqs :
    LoginNoUser(l1) /\ LoginWrongPassword(l2) => reqs[l1].resp = reqs[l2].resp

\* C4: in the richer variant, a profile request that presents the token of a
\* successful registration before the token expires, and whose SELECT is
\* not rejected, is answered 200 with the id of the registered user.
C4_TokenResolves ==
  \A g, p \in Reqs :
    /\ variant = "richer"
    /\ RegisterSucceeded(g)
    /\ reqs[p].route = "profile" /\ reqs[p].scheme = "Bearer"
    /\ reqs[p].token = reqs[g].resp.body.token
    /\ reqs[p].at < reqs[g].resp.body.token.payload.exp
    => /\ reqs[p].pc \in {"select", "done"}
       /\ Done(p) /\ ~reqs[p].failed =>
            /\ reqs[p].resp.status = 200
            /\ reqs[p].resp.body.user.id = reqs[g].resp.body.user.id

\* a registration's token was presented after another request had been
\* handled, and the profile of the registered user came back
C4_Witness ==
  \E g, p, o \in Reqs :
    /\ g < o /\ o < p
    /\ RegisterSucceeded(g) /\ Done(o) /\ Done(p)
    /\ reqs[p].route = "profile"
    /\ reqs[p].token = reqs[g].resp.body.token
    /\ reqs[p].resp.status = 200
    /\ reqs[p].resp.body.user.id = reqs[g].resp.body.user.id

\* the token was signed more than 24h before clock
IssuedLongAgo(t, clock) == "iat" \in DOMAIN t.payload /\ clock - t.payload.iat > TokenTTL

\* the token's signature is not the signing secret's over its payload
BadSignature(t) == t.sig # Signature(t.payload, JWT_SECRET)

\* C5: in the richer variant, a profile request whose token was issued more
\* than 24h before it arrives, or whose signature does not verify, is
\* answered 401 'Invalid or expired token' on arrival, with no user and
\* without a users query.
C5_BadTokenRejected ==
  \A p \in Reqs :
    /\ reqs[p].route = "profile" /\ reqs[p].scheme = "Bearer"
    /\ \/ BadSignature(reqs[p].token)
       \/ reqs[p].token \in IssuedTokens /\ IssuedLongAgo(reqs[p].token, reqs[p].at)
    => /\ Done(p)
       /\ reqs[p].resp.status = 401
       /\ reqs[p].resp.body.error = "Invalid or expired token"
       /\ "user" \notin DOMAIN reqs[p].resp.body
       /\ reqs[p].queries = 0

\* an expired token of a registration and a token with a bad signature were
\* both presented and rejected
C5_Witness ==
  \E p1, p2 \in Reqs :
    /\ reqs[p1].route = "profile" /\ Done(p1)
    /\ reqs[p1].token \in IssuedTokens /\ IssuedLongAgo(reqs[p1].token, reqs[p1].at)
    /\ reqs[p2].route = "profile" /\ Done(p2) /\ reqs[p2].scheme = "Bearer"
    /\ BadSignature(reqs[p2].token)
    /\ reqs[p1].resp.status = 401 /\ reqs[p2].resp.status = 401

\* C6: a request one of whose store statements was rejected is answered 500
\* with an error message.
C6_StoreFailureIs500 ==
  \A r \in Reqs :
    Done(r) /\ reqs[r].failed =>
      /\ reqs[r].resp.status = 500
      /\ "error" \in DOMAIN reqs[r].resp.body

\* C7: no step changes a users row or the courses table; a step changes the
\* users table only by adding one row at its end, and then it is the INSERT
\* of a registration that is answered with that row's id.
C7_Frame ==
  [][/\ courses' = courses
     /\ Len(users') >= Len(users)
     /\ \A i \in 1..Len(users) : users'[i] = users[i]
     /\ users' # users =>
          /\ Len(users') = Len(users) + 1
          /\ \E r \in Reqs :
               /\ reqs[r].route = "register" /\ reqs[r].pc = "insert"
               /\ reqs'[r].pc = "done"
               /\ reqs'[r].resp.status \in {200, 201}
               /\ reqs'[r].resp.body.user.id = users'[Len(users')].id
               /\ \A k \in Reqs \ {r} : reqs'[k] = reqs[k]]_vars

\* two registrations and a login have been answered, and the row that was
\* there before is still the first
C7_Witness ==
  /\ Len(users) = 3
  /\ users[1] = PreExistingUser
  /\ \E l \in Reqs : reqs[l].route = "login" /\ Done(l)

\* C8: the user object of a successful registration has no field holding the
\* password or its hash.
C8_NoHashInResponse ==
  \A r \in Reqs :
    RegisterSucceeded(r) =>
      /\ DOMAIN reqs[r].resp.body.user
           \cap {"password_hash", "passwordHash", "password"} = {}
      /\ DOMAIN reqs[r].resp.body \cap {"password_hash", "passwordHash", "password"} = {}

C8_Witness ==
  \E r \in Reqs :
    /\ RegisterSucceeded(r)
    /\ \E i \in 1..Len(users) :
         /\ users[i].id = reqs[r].resp.body.user.id
         /\ users[i].password_hash = bcryptHash(reqs[r].body.password, BcryptRounds, r)

CourseListed(r) ==
  /\ reqs[r].route = "courses" /\ Done(r)
  /\ reqs[r].resp.status = 200

\* C9: a successful course listing holds exactly the active rows of the
\* courses table, in strictly ascending order of id, and two listings are
\* equal.
C9_ActiveAscending ==
  \A r \in Reqs :
    CourseListed(r) =>
      LET list == reqs[r].resp.body.courses
      IN /\ \A k \in 1..Len(list) :
              list[k].is_active /\ \E i \in 1..Len(courses) : courses[i] = list[k]
         /\ \A i \in 1..Len(courses) :
              courses[i].is_active => \E k \in 1..Len(list) : list[k] = courses[i]
         /\ \A j, k \in 1..Len(list) : j < k => list[j].id < list[k].id
         /\ \A r2 \in Reqs : CourseListed(r2) => reqs[r2].resp = reqs[r].resp

\* two listings of a table that stores an inactive row and two active rows
\* out of order
C9_Witness ==
  \E r1, r2 \in Reqs :
    /\ r1 # r2 /\ CourseListed(r1) /\ CourseListed(r2)
    /\ Len(courses) = 3
    /\ Len(reqs[r1].resp.body.courses) = 2
    /\ courses[1].is_active /\ courses[1].id > reqs[r1].resp.body.courses[1].id

\* C10: a login that arrives after a registration was answered with a user,
\* carries the registered email and password and has no statement rejected,
\* is answered with a token whose userId is the registered user's id.
C10_RegisteredCanLogin ==
  \A g, l \in Reqs :
    /\ RegisterSucceeded(g)
    /\ reqs[l].route = "login" /\ Done(l) /\ ~reqs[l].failed
    /\ reqs[l].body.email = reqs[g].body.email
    /\ reqs[l].body.password = reqs[g].body.password
    /\ \E i \in 1..reqs[l].arrived : users[i].id = reqs[g].resp.body.user.id
    => /\ "token" \in DOMAIN reqs[l].resp.body
       /\ reqs[l].resp.body.token.payload.userId = reqs[g].resp.body.user.id

====
